---- MODULE Spec2Model ----
(***************************************************************************)
(* A model of the CPU rasterization core of newtonian_gravity              *)
(* (src/render/cpu.rs): the HorizontalLineImage canvas and its unchecked   *)
(* write primitives, its construction and its conversions from and to      *)
(* image::ImageBuffer, the GifHandler frame handler, the IntegerRasterizer *)
(* and the AreaIntersectionRasterizer with the circle/rectangle area       *)
(* function.                                                               *)
(*                                                                         *)
(* Memory is modelled in pixel records ("slots"): slot k of a container is *)
(* the k-th run of size_of::<Pixel>() bytes from its start.  Every store   *)
(* the code issues is a whole, record-aligned Pixel, so a store is a slot  *)
(* number; a slot past the container's end is a store outside the buffer.  *)
(***************************************************************************)
EXTENDS Integers, Sequences, FiniteSets, TLC

VARIABLES
    canvas,     \* the HorizontalLineImage in use, or NoCanvas
    pre,        \* canvas.data as it was when the last call started
    last,       \* the last call: [op, args, paint]
    writes,     \* the slots the last call stored to (inside the buffer or not)
    status,     \* "ok" | "panicked" (panic!) | "fault" (a store outside the buffer killed the process)
    debug,      \* TRUE: the build has debug assertions (debug_assert! is checked)
    ndraws,     \* draw calls made on the canvas so far
    image,      \* the image::ImageBuffer in use, or NoImage
    ctorCalls,  \* how often a container constructor was invoked
    pc,         \* the renderer's position in the frame loop
    trace,      \* what the last call did on its way: [calls, steps, overflow, underflow]
    frame_handler   \* CPURenderer.frame_handler: the GifHandler, with the frames it has encoded

vars == <<canvas, pre, last, writes, status, debug, ndraws, image, ctorCalls, pc, trace, frame_handler>>

----------------------------------------------------------------------------
(* Bounds of the model *)

MaxWidth == 3
MaxHeight == 3
MaxDraws == 1
MaxFrames == 2

\* The model's machine word: i32 and u32 have WordBits bits and usize twice as
\* many (the code's 32 and, on a 64-bit target, 64), scaled down so that every
\* value, and every overflow, fits TLC's integers.
WordBits == 8

I32Max == 2^(WordBits - 1) - 1
I32Min == -(2^(WordBits - 1))
U32Max == 2^WordBits - 1
UsizeMax == 2^(2 * WordBits) - 1

----------------------------------------------------------------------------
(* Small helpers *)

Min(a, b) == IF a <= b THEN a ELSE b
Max(a, b) == IF a >= b THEN a ELSE b
None == [some |-> FALSE, val |-> 0]
Some(v) == [some |-> TRUE, val |-> v]

----------------------------------------------------------------------------
(* Pixels and containers *)

\* A paint is an image::Rgba<u8> value <<r, g, b, a>>.
Black == <<0, 0, 0, 255>>
White == <<255, 255, 255, 255>>
Grey == <<128, 128, 128, 255>>
Paints == {White, Grey}
DefaultColors == {Black, White}

\* A pixel layout: CHANNEL_COUNT and the size of a subpixel in bytes.
Rgba8 == [chan |-> 4, sub |-> 1]
Rgba16 == [chan |-> 4, sub |-> 2]
Luma8 == [chan |-> 1, sub |-> 1]
Layouts == {Rgba8, Rgba16, Luma8}

\* mem::size_of::<Pixel>(), in bytes
SizeOfPixel(cv) == cv.chan * cv.sub

\* A container of len subpixels holds len \div chan whole pixel records.
SlotsOf(len, chan) == 0 .. (len \div chan) - 1
Filled(len, chan, color) == [i \in SlotsOf(len, chan) |-> color]

NoCanvas == [width |-> 0, height |-> 0, chan |-> 0, sub |-> 0, len |-> 0, data |-> Filled(0, 1, Black)]
NoImage == [width |-> 0, height |-> 0, chan |-> 0, sub |-> 0, len |-> 0, data |-> Filled(0, 1, Black)]
NoCall == [op |-> "none", args |-> <<>>, paint |-> Black]
NoHandler == [width |-> 0, height |-> 0, default_color |-> Black, encoder |-> <<>>, consumed |-> 0]

\* The slot of the canvas that holds cell (x, y): row-major, one record per cell.
CellSlot(cv, x, y) == y * cv.width + x
Cells(cv) == (0 .. cv.width - 1) \X (0 .. cv.height - 1)

----------------------------------------------------------------------------
(* HorizontalLineImage: the unchecked write primitives *)

\* to_data_index: an index into the container, which is a slice of subpixels
ToDataIndex(cv, x, y) == ((y * cv.width + x) * SizeOfPixel(cv)) % (UsizeMax + 1)

\* The address of data[index] as a slot: index subpixels of sub bytes each,
\* counted in records of size_of::<Pixel>() bytes.
SlotOfIndex(cv, index) == (index * cv.sub) \div SizeOfPixel(cv)

\* The state a sequence of canvas calls threads through.
\* calls: the calls of the canvas primitives issued so far, steps: the
\* iterations of the midpoint loop, overflow: an i32 operation left the i32
\* range, underflow: a right-edge walk stepped below column 0, crossed: a
\* right-edge walk stopped left of the column where the left-edge walk stopped.
NoTrace ==
    [calls |-> {}, steps |-> 0, overflow |-> FALSE, underflow |-> FALSE, crossed |-> FALSE]
Machine(cv) ==
    [data |-> cv.data, writes |-> {}, status |-> "ok",
     calls |-> {}, steps |-> 0, overflow |-> FALSE, underflow |-> FALSE, crossed |-> FALSE]
Issue(m, call) == [m EXCEPT !.calls = @ \cup {call}]

Store(m, slots, paint) ==
    [m EXCEPT !.data = [i \in DOMAIN m.data |-> IF i \in slots THEN paint ELSE m.data[i]],
              !.writes = m.writes \cup slots]

\* draw_pixel_unchecked
PixelAssertsHold(cv, x, y) == x < cv.width /\ y < cv.height
PixelCall(x, y) == [op |-> "pixel", x0 |-> x, x1 |-> x + 1, y |-> y]
DrawPixelUnchecked(cv, dbg, m, x, y, color) ==
    IF m.status # "ok" THEN m
    ELSE IF dbg /\ ~PixelAssertsHold(cv, x, y)
         THEN [Issue(m, PixelCall(x, y)) EXCEPT !.status = "panicked"]
    ELSE Store(Issue(m, PixelCall(x, y)), {SlotOfIndex(cv, ToDataIndex(cv, x, y))}, color)

\* draw_horizontal_line_unchecked: stores a Pixel at addr while addr < end_addr
LineAssertsHold(cv, x0, x1, y) == x0 <= x1 /\ x0 < cv.width /\ x1 <= cv.width /\ y < cv.height
LineSlots(cv, x0, x1, y) ==
    SlotOfIndex(cv, ToDataIndex(cv, x0, y)) .. SlotOfIndex(cv, ToDataIndex(cv, x1, y)) - 1
LineCall(x0, x1, y) == [op |-> "line", x0 |-> x0, x1 |-> x1, y |-> y]
DrawHorizontalLineUnchecked(cv, dbg, m, x0, x1, y, color) ==
    IF m.status # "ok" THEN m
    ELSE IF dbg /\ ~LineAssertsHold(cv, x0, x1, y)
         THEN [Issue(m, LineCall(x0, x1, y)) EXCEPT !.status = "panicked"]
    ELSE Store(Issue(m, LineCall(x0, x1, y)), LineSlots(cv, x0, x1, y), color)

\* What a call leaves behind.  A store outside the buffer is undefined
\* behaviour: it lands in foreign memory and the program goes on, or it faults.
Outside(cv, m) == m.writes \ DOMAIN cv.data
Outcomes(cv, m) ==
    IF m.status = "ok" /\ Outside(cv, m) # {} THEN {"ok", "fault"} ELSE {m.status}

Finish(m, call) ==
    /\ canvas' = [canvas EXCEPT !.data = m.data]
    /\ pre' = canvas.data
    /\ last' = call
    /\ writes' = m.writes
    /\ trace' = [calls |-> m.calls, steps |-> m.steps, overflow |-> m.overflow,
                 underflow |-> m.underflow, crossed |-> m.crossed]
    /\ status' \in Outcomes(canvas, m)
    /\ ndraws' = ndraws + 1

----------------------------------------------------------------------------
(* HorizontalLineImage::new *)

CheckedMul(a, b) == IF a * b > UsizeMax THEN None ELSE Some(a * b)
AndThenMul(opt, b) == IF opt.some THEN CheckedMul(opt.val, b) ELSE None

\* The length with wrapping multiplications in place of checked_mul
BufferLenWrapping(layout, width, height) == Some((layout.chan * width * height) % (UsizeMax + 1))

\* The length new asks its container constructor for; None: expect() panics.
BufferLen(layout, width, height) == AndThenMul(AndThenMul(Some(layout.chan), width), height)

\* new without its assert_eq!(data.len(), len)
NewAcceptsAnyLength(layout, width, height, got, color) ==
    LET len == BufferLen(layout, width, height) IN
    IF ~len.some THEN [canvas |-> NoCanvas, calls |-> 0]
    ELSE [canvas |-> [width |-> width, height |-> height, chan |-> layout.chan,
                       sub |-> layout.sub, len |-> got, data |-> Filled(got, layout.chan, color)],
          calls |-> 1]

\* A container constructor is called with the length and answers a container:
\* here one of got subpixels, every pixel record of it holding color.
\* The result: the canvas (NoCanvas when new panicked) and the constructor calls made.
New(layout, width, height, got, color) ==
    LET len == BufferLen(layout, width, height) IN
    IF ~len.some THEN [canvas |-> NoCanvas, calls |-> 0]
    ELSE IF got # len.val THEN [canvas |-> NoCanvas, calls |-> 1]
    ELSE [canvas |-> [width |-> width, height |-> height, chan |-> layout.chan,
                       sub |-> layout.sub, len |-> got, data |-> Filled(got, layout.chan, color)],
          calls |-> 1]

\* GifHandler::produce: new with a constructor that repeats the default color
\* over exactly the length asked for.
Produce(layout, width, height, color) ==
    LET len == BufferLen(layout, width, height) IN
    New(layout, width, height, IF len.some THEN len.val ELSE 0, color)

----------------------------------------------------------------------------
(* The canvas primitives called directly: specification SpecCanvas *)

InitCommon ==
    /\ pre = canvas.data
    /\ last = NoCall
    /\ writes = {}
    /\ trace = NoTrace
    /\ status = "ok"
    /\ debug \in BOOLEAN
    /\ ndraws = 0
    /\ image = NoImage
    /\ ctorCalls = 1
    /\ pc = "draw"
    /\ frame_handler = NoHandler

InitCanvas ==
    /\ \E layout \in Layouts, w \in 1 .. MaxWidth, h \in 1 .. MaxHeight, c \in DefaultColors :
          canvas = Produce(layout, w, h, c).canvas
    /\ InitCommon

CanDraw == status = "ok" /\ pc = "draw" /\ canvas # NoCanvas /\ ndraws < MaxDraws

DrawPixel(x, y, color) ==
    /\ CanDraw
    /\ Finish(DrawPixelUnchecked(canvas, debug, Machine(canvas), x, y, color),
              [op |-> "pixel", args |-> <<x, y>>, paint |-> color])
    /\ UNCHANGED <<debug, image, ctorCalls, pc, frame_handler>>

DrawLine(x0, x1, y, color) ==
    /\ CanDraw
    /\ Finish(DrawHorizontalLineUnchecked(canvas, debug, Machine(canvas), x0, x1, y, color),
              [op |-> "line", args |-> <<x0, x1, y>>, paint |-> color])
    /\ UNCHANGED <<debug, image, ctorCalls, pc, frame_handler>>

NextCanvas ==
    \/ \E x \in 0 .. MaxWidth, y \in 0 .. MaxHeight, color \in Paints : DrawPixel(x, y, color)
    \/ \E x0 \in 0 .. MaxWidth, x1 \in 0 .. MaxWidth, y \in 0 .. MaxHeight, color \in Paints :
          DrawLine(x0, x1, y, color)

SpecCanvas == InitCanvas /\ [][NextCanvas]_vars

----------------------------------------------------------------------------
(* f32 *)

\* An f32 is [cls, v]: "fin" is the number v / FP (fixed point: the model
\* rounds to the nearest multiple of 1 / FP where f32 rounds to 24 bits),
\* "inf" is +infinity (v = 1) or -infinity (v = -1), "nan" is not a number.
\* Zero has no sign in the model.
SqrtFP == 2^6
FP == SqrtFP * SqrtFP
Fin(v) == [cls |-> "fin", v |-> v]
OfInt(n) == Fin(n * FP)
Halves(n) == Fin(n * (FP \div 2))
Sixteenths(n) == Fin(n * (FP \div 16))
NaN == [cls |-> "nan", v |-> 0]
PosInf == [cls |-> "inf", v |-> 1]
NegInf == [cls |-> "inf", v |-> -1]

\* Truncation toward zero of a fixed-point number
Trunc(v) == IF v >= 0 THEN v \div FP ELSE -((-v) \div FP)

\* The conversion of an `as i32` cast: saturating, NaN to 0, never None
ToI32Saturating(f) ==
    IF f.cls = "nan" THEN Some(0)
    ELSE IF f.cls = "inf" THEN Some(IF f.v > 0 THEN I32Max ELSE I32Min)
    ELSE Some(Max(I32Min, Min(I32Max, Trunc(f.v))))

\* num_traits::ToPrimitive::to_i32 for f32: the truncated value when it is an
\* i32, None for a value out of range, an infinity or NaN.
ToI32(f) ==
    IF f.cls = "fin" /\ I32Min <= Trunc(f.v) /\ Trunc(f.v) <= I32Max
    THEN Some(Trunc(f.v)) ELSE None

Zero == Fin(0)
One == Fin(FP)
Two == Fin(2 * FP)
IsNaN(a) == a.cls = "nan"
Sign(v) == IF v < 0 THEN -1 ELSE 1
Abs(v) == IF v < 0 THEN -v ELSE v
Inf(sign) == [cls |-> "inf", v |-> sign]

\* n / d rounded to the nearest integer, for n >= 0 and d > 0
RoundDiv(n, d) == (2 * n + d) \div (2 * d)

\* a * b / FP rounded, for a, b >= 0, computed in parts that stay below 2^31
MulMagnitude(a, b) ==
    LET aq == a \div FP
        ar == a % FP
        bq == b \div FP
        br == b % FP
    IN  aq * bq * FP + aq * br + ar * bq + RoundDiv(ar * br, FP)

\* a * FP / b rounded, for a >= 0 and b > 0
DivMagnitude(a, b) == (a \div b) * FP + RoundDiv((a % b) * FP, b)

FNeg(a) == IF a.cls = "nan" THEN a ELSE [a EXCEPT !.v = -a.v]

FAdd(a, b) ==
    IF IsNaN(a) \/ IsNaN(b) THEN NaN
    ELSE IF a.cls = "inf" /\ b.cls = "inf" THEN (IF a.v = b.v THEN a ELSE NaN)
    ELSE IF a.cls = "inf" THEN a
    ELSE IF b.cls = "inf" THEN b
    ELSE Fin(a.v + b.v)

FSub(a, b) ==
    IF IsNaN(a) \/ IsNaN(b) THEN NaN
    ELSE IF a.cls = "inf" /\ b.cls = "inf" THEN (IF a.v = b.v THEN NaN ELSE a)
    ELSE IF a.cls = "inf" THEN a
    ELSE IF b.cls = "inf" THEN Inf(-b.v)
    ELSE Fin(a.v - b.v)

FMul(a, b) ==
    IF IsNaN(a) \/ IsNaN(b) THEN NaN
    ELSE IF a.cls = "inf" \/ b.cls = "inf"
         THEN (IF a.v = 0 \/ b.v = 0 THEN NaN ELSE Inf(Sign(a.v) * Sign(b.v)))
    ELSE Fin(Sign(a.v) * Sign(b.v) * MulMagnitude(Abs(a.v), Abs(b.v)))

FDiv(a, b) ==
    IF IsNaN(a) \/ IsNaN(b) THEN NaN
    ELSE IF a.cls = "inf" THEN (IF b.cls = "inf" THEN NaN ELSE Inf(Sign(a.v) * Sign(b.v)))
    ELSE IF b.cls = "inf" THEN Zero
    ELSE IF b.v = 0 THEN (IF a.v = 0 THEN NaN ELSE Inf(Sign(a.v)))
    ELSE Fin(Sign(a.v) * Sign(b.v) * DivMagnitude(Abs(a.v), Abs(b.v)))

\* Comparisons: every comparison with NaN is false
FLt(a, b) ==
    /\ ~IsNaN(a) /\ ~IsNaN(b)
    /\ IF a.cls = "inf" THEN a.v < 0 /\ ~(b.cls = "inf" /\ b.v < 0)
       ELSE IF b.cls = "inf" THEN b.v > 0
       ELSE a.v < b.v
FLe(a, b) == ~IsNaN(a) /\ ~IsNaN(b) /\ ~FLt(b, a)
FGe(a, b) == FLe(b, a)

\* f32::min and f32::max: the other operand when one is NaN
FMin(a, b) == IF IsNaN(a) THEN b ELSE IF IsNaN(b) THEN a ELSE IF FLt(b, a) THEN b ELSE a
FMax(a, b) == IF IsNaN(a) THEN b ELSE IF IsNaN(b) THEN a ELSE IF FLt(a, b) THEN b ELSE a

\* k * k <= n, without the product
RootAtMost(k, n) == k = 0 \/ k <= n \div k
\* The largest base + d * unit, for a digit d, that the root of n reaches
IsqrtDigit(n, base, unit) ==
    base + unit * (CHOOSE d \in 0 .. 35 :
                      /\ RootAtMost(base + unit * d, n)
                      /\ d = 35 \/ ~RootAtMost(base + unit * (d + 1), n))
\* The square root of n rounded to the nearest integer; the root of an
\* n < 2^31 has three digits to the base 36
Isqrt(n) ==
    IF n <= 0 THEN 0
    ELSE LET k == IsqrtDigit(n, IsqrtDigit(n, IsqrtDigit(n, 0, 36 * 36), 36), 1)
         IN  IF n - k * k > k THEN k + 1 ELSE k

\* f32::sqrt: sqrt(v / FP) = sqrt(v * FP) / FP; a v too large for the product
\* to stay below 2^31 is rooted as sqrt(v) * sqrt(FP)
FSqrt(a) ==
    IF IsNaN(a) THEN NaN
    ELSE IF a.cls = "inf" THEN (IF a.v > 0 THEN a ELSE NaN)
    ELSE IF a.v < 0 THEN NaN
    ELSE IF a.v < 2^18 THEN Fin(Isqrt(a.v * FP))
    ELSE Fin(Isqrt(a.v) * SqrtFP)

\* pi / 2 as 355 / 226
HalfPi == RoundDiv(355 * FP, 226)

\* The series u + u^3 / 6 + 3 u^5 / 40 + ... of asin, from its term number k:
\* each term is the one before times u^2 (2k+1)^2 / ((2k+2)(2k+3)), rounded
\* down, so the terms reach 0.  The terms carry GuardBits more bits than an f32
\* of the model.
GuardBits == 2^4
RECURSIVE AsinSeries(_, _, _)
AsinSeries(term, u2, k) ==
    IF term = 0 THEN 0
    ELSE term + AsinSeries((((term * u2) \div FP) * (2 * k + 1) * (2 * k + 1))
                               \div ((2 * k + 2) * (2 * k + 3)), u2, k + 1)

\* asin of u / FP for 0 <= u <= FP: the series below sqrt(1/2), and
\* pi / 2 - asin(sqrt(1 - u^2)) above
AsinMagnitude(u) ==
    LET u2 == MulMagnitude(u, u) IN
    IF 2 * u2 <= FP THEN RoundDiv(AsinSeries(u * GuardBits, u2, 0), GuardBits)
    ELSE LET w == Isqrt((FP - u2) * FP) IN
         HalfPi - RoundDiv(AsinSeries(w * GuardBits, MulMagnitude(w, w), 0), GuardBits)

\* f32::asin: NaN outside [-1, 1]
FAsin(a) ==
    IF a.cls # "fin" \/ Abs(a.v) > FP THEN NaN
    ELSE Fin(Sign(a.v) * AsinMagnitude(Abs(a.v)))

\* f32 as u32 and as u8: truncated, saturating, NaN to 0
AsUnsigned(a, max) ==
    IF IsNaN(a) THEN 0
    ELSE IF a.cls = "inf" THEN (IF a.v > 0 THEN max ELSE 0)
    ELSE Max(0, Min(max, Trunc(a.v)))
AsU32(a) == AsUnsigned(a, U32Max)
AsU8(a) == AsUnsigned(a, 255)
\* u32 as f32
OfU32(n) == Fin(n * FP)

----------------------------------------------------------------------------
(* The area of the intersection of a rectangle and a circle *)

\* clamp
Clamp(v, min, max) == FMax(min, FMin(v, max))

\* g: the indefinite integral of a circle segment
G(x, h, r) ==
    FDiv(FSub(FAdd(FMul(FMul(FSqrt(FSub(One, FDiv(FMul(x, x), FMul(r, r)))), x), r),
                   FMul(FMul(r, r), FAsin(FDiv(x, r)))),
              FMul(FMul(Two, h), x)),
         Two)

\* area_intersection_fixed_circle_tall_rectangle, for the s it computes
TallRectangleOf(s, x0, x1, h, r) ==
    FSub(G(Clamp(x1, FNeg(s), s), h, r), G(Clamp(x0, FNeg(s), s), h, r))

\* area_intersection_fixed_circle_tall_rectangle
AreaFixedCircleTallRectangle(x0, x1, h, r) ==
    TallRectangleOf(IF FLt(h, r) THEN FSqrt(FSub(FMul(r, r), FMul(h, h))) ELSE Zero, x0, x1, h, r)

\* area_intersection_fixed_circle_rectangle: a rectangle below the axis is
\* mirrored, one across the axis is split at it
RECURSIVE AreaFixedCircleRectangle(_, _, _, _, _)
AreaFixedCircleRectangle(x0, y0, x1, y1, r) ==
    IF FLt(y0, Zero)
    THEN IF FLt(y1, Zero)
         THEN AreaFixedCircleRectangle(x0, FNeg(y1), x1, FNeg(y0), r)
         ELSE FAdd(AreaFixedCircleRectangle(x0, Zero, x1, FNeg(y0), r),
                   AreaFixedCircleRectangle(x0, Zero, x1, y1, r))
    ELSE FSub(AreaFixedCircleTallRectangle(x0, x1, y0, r), AreaFixedCircleTallRectangle(x0, x1, y1, r))

\* area_intersection_circle_rectangle
AreaCircleRectangle(x0, y0, x1, y1, cx, cy, r) ==
    AreaFixedCircleRectangle(FSub(x0, cx), FSub(y0, cy), FSub(x1, cx), FSub(y1, cy), r)

\* The debug assertions of the area functions and of clamp
AreaAssertsHold(x0, y0, x1, y1, r) == FLe(x0, x1) /\ FLe(y0, y1) /\ FGe(r, Zero)

----------------------------------------------------------------------------
(* IntegerRasterizer *)

InI32(v) == I32Min <= v /\ v <= I32Max
WrapI32(v) == ((v - I32Min) % (U32Max + 1)) + I32Min
SaturatingSub(a, b) == Max(I32Min, Min(I32Max, a - b))
SaturatingAdd(a, b) == Max(I32Min, Min(I32Max, a + b))
CheckedSub(a, b) == IF InI32(a - b) THEN Some(a - b) ELSE None
CheckedAdd(a, b) == IF InI32(a + b) THEN Some(a + b) ELSE None
\* i32 -> u32 by try_into().unwrap_or(0)
TryIntoU32Or0(v) == IF v >= 0 THEN v ELSE 0

\* A draw_horizontal_line that trusts every row the checked arithmetic yields.
DrawHorizontalLineAnyRow(cv, dbg, m, x0, x1, optY, paint) ==
    IF optY.some
    THEN DrawHorizontalLineUnchecked(cv, dbg, m, x0, x1, optY.val % (U32Max + 1), paint)
    ELSE m

\* IntegerRasterizer::draw_horizontal_line: the row is drawn when it is a row of the canvas
DrawHorizontalLine(cv, dbg, m, x0, x1, optY, paint) ==
    IF optY.some /\ optY.val >= 0 /\ optY.val < cv.height
    THEN DrawHorizontalLineUnchecked(cv, dbg, m, x0, x1, optY.val, paint)
    ELSE m

\* The two spans of columns [x0 - dx, x0 + dx] on the rows y0 - dy and y0 + dy
SpanPair(cv, dbg, m, x0, y0, dx, dy, paint) ==
    LET sub == TryIntoU32Or0(SaturatingSub(x0, dx)) IN
    IF sub < cv.width
    THEN LET add == Min(TryIntoU32Or0(SaturatingAdd(x0, dx)) + 1, cv.width)
             m1 == DrawHorizontalLine(cv, dbg, m, sub, add, CheckedSub(y0, dy), paint)
         IN  DrawHorizontalLine(cv, dbg, m1, sub, add, CheckedAdd(y0, dy), paint)
    ELSE m

\* A value bound to a name: the one member of {Body(v)} for the value v, so
\* that v is computed once, as a let binding of the code is.
Let(v, Body(_)) == CHOOSE result \in {Body(w) : w \in {v}} : TRUE

\* An i32 result: in a build with overflow checks an overflow panics, in one
\* without it wraps.
Overflows(dbg, v) == dbg /\ ~InI32(v)

\* x += 1; if p < 0 { p += 2 * x + 1 } else { y -= 1; p += 2 * (x - y) + 1 }
\* on the integers, with the results of the i32 operations it is made of
MidpointStep(x, y, p) ==
    IF p < 0
    THEN [x |-> x + 1, y |-> y, p |-> p + (2 * (x + 1) + 1),
          results |-> {x + 1, 2 * (x + 1), 2 * (x + 1) + 1, p + (2 * (x + 1) + 1)}]
    ELSE [x |-> x + 1, y |-> y - 1, p |-> p + (2 * ((x + 1) - (y - 1)) + 1),
          results |-> {x + 1, y - 1, (x + 1) - (y - 1), 2 * ((x + 1) - (y - 1)),
                       2 * ((x + 1) - (y - 1)) + 1, p + (2 * ((x + 1) - (y - 1)) + 1)}]

\* The loop goes on: while x <= y, in a process that has not panicked
MidpointRunning(s) == s.m.status = "ok" /\ s.x <= s.y

\* One iteration of the loop, from s = [m, x, y, p]: the four spans, then the step
MidpointBody(cv, dbg, x0, y0, paint, s) ==
    LET m1 == SpanPair(cv, dbg, s.m, x0, y0, s.x, s.y, paint)
        m2 == SpanPair(cv, dbg, m1, x0, y0, s.y, s.x, paint)
        step == MidpointStep(s.x, s.y, s.p)
        m3 == [m2 EXCEPT !.steps = @ + 1,
                         !.overflow = @ \/ \E v \in step.results : ~InI32(v)]
    IN  IF \E v \in step.results : Overflows(dbg, v)
        THEN [s EXCEPT !.m = [m3 EXCEPT !.status = "panicked"]]
        ELSE [m |-> m3, x |-> WrapI32(step.x), y |-> WrapI32(step.y), p |-> WrapI32(step.p)]

\* Up to n iterations of the loop: the first half of them, then the rest
RECURSIVE MidpointIterations(_, _, _, _, _, _, _)
MidpointIterations(cv, dbg, x0, y0, paint, s, n) ==
    IF ~MidpointRunning(s) THEN s
    ELSE IF n = 1 THEN MidpointBody(cv, dbg, x0, y0, paint, s)
    ELSE Let(MidpointIterations(cv, dbg, x0, y0, paint, s, n \div 2),
             LAMBDA t : MidpointIterations(cv, dbg, x0, y0, paint, t, n - n \div 2))

\* The midpoint loop: while x <= y { spans; x += 1; update of p and y }.
\* A loop still going after as many iterations as there are i32 values is
\* left "running".
MidpointLoop(cv, dbg, m, x0, y0, x, y, p, paint) ==
    Let(MidpointIterations(cv, dbg, x0, y0, paint, [m |-> m, x |-> x, y |-> y, p |-> p], U32Max + 1),
        LAMBDA s : IF MidpointRunning(s) THEN [s.m EXCEPT !.status = "running"] ELSE s.m)

\* draw_filled_circle_internal: a failed conversion returns before any store
DrawFilledCircleInternal(cv, dbg, cx, cy, r, paint) ==
    LET x0 == ToI32(cx)
        y0 == ToI32(cy)
        ri == ToI32(r)
    IN  IF ~x0.some \/ ~y0.some \/ ~ri.some THEN Machine(cv)
        ELSE IF Overflows(dbg, 1 - ri.val)
             THEN [Machine(cv) EXCEPT !.status = "panicked", !.overflow = TRUE]
        ELSE MidpointLoop(cv, dbg, [Machine(cv) EXCEPT !.overflow = ~InI32(1 - ri.val)],
                          x0.val, y0.val, 0, ri.val, WrapI32(1 - ri.val), paint)

\* The circles the model draws: centres left of, on and right of the canvas,
\* one that is no i32 and one that is no number.
TooBig == OfInt(I32Max + 1)
CoordInputs == {NaN, TooBig, OfInt(-2), Halves(3), OfInt(MaxWidth + 1)}
RadiusInputs == {NaN, TooBig, OfInt(0), OfInt(1), Halves(5)}

InitInt ==
    /\ \E w \in 1 .. MaxWidth, h \in 1 .. MaxHeight, c \in DefaultColors :
          canvas = Produce(Rgba8, w, h, c).canvas
    /\ InitCommon

IntDrawFilledCircle(cx, cy, r, paint) ==
    /\ CanDraw
    /\ Finish(DrawFilledCircleInternal(canvas, debug, cx, cy, r, paint),
              [op |-> "int_circle", args |-> <<cx, cy, r>>, paint |-> paint])
    /\ UNCHANGED <<debug, image, ctorCalls, pc, frame_handler>>

NextInt ==
    \E cx \in CoordInputs, cy \in CoordInputs, r \in RadiusInputs :
        IntDrawFilledCircle(cx, cy, r, White)

SpecInt == InitInt /\ [][NextInt]_vars

\* The circles whose arguments all convert, on every canvas including the
\* empty ones: centres left of and on the canvas and at the largest i32,
\* radii from 0 to the largest i32: specification SpecMidpoint.
MidpointCentreInputs == {OfInt(-2), Halves(3), OfInt(I32Max)}
MidpointRadiusInputs == {OfInt(0), Halves(5), OfInt(I32Max)}

InitMidpoint ==
    /\ \E w \in 0 .. MaxWidth, h \in 0 .. MaxHeight :
          canvas = Produce(Rgba8, w, h, Black).canvas
    /\ InitCommon

NextMidpoint ==
    \E cx \in MidpointCentreInputs, cy \in MidpointCentreInputs, r \in MidpointRadiusInputs :
        IntDrawFilledCircle(cx, cy, r, White)

SpecMidpoint == InitMidpoint /\ [][NextMidpoint]_vars

----------------------------------------------------------------------------
(* AreaIntersectionRasterizer *)

\* GrayscaleRgbScalar::scale for Rgba<u8>: the red channel times the scale,
\* cast to u8, in the three colour channels; alpha copied.  The clamp is ignored.
Scale(paint, a) ==
    LET c == AsU8(FMul(Fin(paint[1] * FP), a)) IN <<c, c, c, paint[4]>>

\* An u32 result: in a build with overflow checks an overflow panics, in one
\* without it wraps.
InU32(v) == 0 <= v /\ v <= U32Max
WrapU32(v) == v % (U32Max + 1)

\* The coverage of cell (x, y) and the debug assertions of its computation
CellArea(x, y, cx, cy, r) ==
    AreaCircleRectangle(OfU32(x), OfU32(y), FAdd(OfU32(x), One), FAdd(OfU32(y), One), cx, cy, r)
CellAssertsHold(x, y, r) ==
    AreaAssertsHold(OfU32(x), OfU32(y), FAdd(OfU32(x), One), FAdd(OfU32(y), One), r)

\* One cell of either path: its coverage a, then, unless stop(a), the pixel
\* drawn with the scaled paint.  [m, a]; m is unchanged when the walk stops.
CellStep(cv, dbg, m, x, y, cx, cy, r, paint, stops) ==
    IF m.status # "ok" THEN [m |-> m, a |-> NaN]
    ELSE IF dbg /\ ~CellAssertsHold(x, y, r) THEN [m |-> [m EXCEPT !.status = "panicked"], a |-> NaN]
    ELSE Let(CellArea(x, y, cx, cy, r),
             LAMBDA a : [m |-> IF stops /\ FGe(a, One) THEN m
                               ELSE DrawPixelUnchecked(cv, dbg, m, x, y, Scale(paint, a)),
                         a |-> a])

\* The small-radius path: for y in min_y..max_y { for x in min_x..max_x { .. } },
\* from cell (x, y) on
RECURSIVE SmallPath(_, _, _, _, _, _, _, _, _, _, _, _)
SmallPath(cv, dbg, m, x, y, min_x, max_x, max_y, cx, cy, r, paint) ==
    IF y >= max_y \/ min_x >= max_x THEN m
    ELSE IF x >= max_x THEN SmallPath(cv, dbg, m, min_x, y + 1, min_x, max_x, max_y, cx, cy, r, paint)
    ELSE SmallPath(cv, dbg, CellStep(cv, dbg, m, x, y, cx, cy, r, paint, FALSE).m,
                   x + 1, y, min_x, max_x, max_y, cx, cy, r, paint)

\* The walk from the left edge of a row: [m, x, returned]
RECURSIVE LeftWalk(_, _, _, _, _, _, _, _, _, _)
LeftWalk(cv, dbg, m, x, max_x, y, cx, cy, r, paint) ==
    Let(CellStep(cv, dbg, m, x, y, cx, cy, r, paint, TRUE),
        LAMBDA step :
            IF step.m.status # "ok" THEN [m |-> step.m, x |-> x, returned |-> TRUE]
            ELSE IF FGe(step.a, One) THEN [m |-> step.m, x |-> x, returned |-> FALSE]
            ELSE IF dbg /\ ~InU32(x + 1)
                 THEN [m |-> [step.m EXCEPT !.status = "panicked"], x |-> x, returned |-> TRUE]
            ELSE IF WrapU32(x + 1) >= max_x
                 THEN [m |-> step.m, x |-> WrapU32(x + 1), returned |-> TRUE]
            ELSE LeftWalk(cv, dbg, step.m, WrapU32(x + 1), max_x, y, cx, cy, r, paint))

\* One iteration of the walk from the right edge of a row, from
\* s = [m, x, stopped]: the cell at x, then break or max_x -= 1
RightStep(cv, dbg, s, y, cx, cy, r, paint) ==
    Let(CellStep(cv, dbg, s.m, s.x, y, cx, cy, r, paint, TRUE),
        LAMBDA step :
            IF step.m.status # "ok" THEN [m |-> step.m, x |-> s.x, stopped |-> TRUE]
            ELSE IF FGe(step.a, One) THEN [m |-> step.m, x |-> s.x, stopped |-> TRUE]
            ELSE IF dbg /\ ~InU32(s.x - 1)
                 THEN [m |-> [step.m EXCEPT !.status = "panicked", !.underflow = TRUE],
                       x |-> s.x, stopped |-> TRUE]
            ELSE [m |-> [step.m EXCEPT !.underflow = @ \/ ~InU32(s.x - 1)],
                  x |-> WrapU32(s.x - 1), stopped |-> FALSE])

\* Up to n iterations of that walk: the first half of them, then the rest
RECURSIVE RightWalkIterations(_, _, _, _, _, _, _, _, _)
RightWalkIterations(cv, dbg, s, n, y, cx, cy, r, paint) ==
    IF s.stopped THEN s
    ELSE IF n = 1 THEN RightStep(cv, dbg, s, y, cx, cy, r, paint)
    ELSE Let(RightWalkIterations(cv, dbg, s, n \div 2, y, cx, cy, r, paint),
             LAMBDA t : RightWalkIterations(cv, dbg, t, n - n \div 2, y, cx, cy, r, paint))

\* The walk from the right edge of a row: [m, x, stopped].  A walk that has
\* been through as many columns as u32 has values without stopping never stops.
RightWalk(cv, dbg, m, x, y, cx, cy, r, paint) ==
    RightWalkIterations(cv, dbg, [m |-> m, x |-> x, stopped |-> FALSE], U32Max + 1,
                        y, cx, cy, r, paint)

\* The end of the closure: the right walk from max_x, then the line between
\* the columns where the two walks stopped
RightWalkAndLine(cv, dbg, left, max_x, y, cx, cy, r, paint) ==
    Let(RightWalk(cv, dbg, left.m, max_x, y, cx, cy, r, paint),
        LAMBDA rw :
            IF ~rw.stopped THEN [rw.m EXCEPT !.status = "running"]
            ELSE IF rw.m.status = "ok" /\ dbg /\ ~InU32(rw.x + 1)
            THEN [rw.m EXCEPT !.status = "panicked"]
            ELSE DrawHorizontalLineUnchecked(cv, dbg, [rw.m EXCEPT !.crossed = @ \/ rw.x < left.x],
                                             left.x, WrapU32(rw.x + 1), y, paint))

\* The closure draw_horizontal_line_unchecked_y(r_x, y, y0, y1)
DrawRow(cv, dbg, m, r_x, y, cx, cy, r, paint) ==
    LET min_x == AsU32(FSub(cx, r_x))
        right == AsU32(FAdd(cx, r_x)) + 1
        max_x == Min(WrapU32(right), cv.width - 1)
    IN  IF m.status # "ok" THEN m
        ELSE IF dbg /\ ~InU32(right) THEN [m EXCEPT !.status = "panicked"]
        ELSE Let(LeftWalk(cv, dbg, m, min_x, max_x, y, cx, cy, r, paint),
                 LAMBDA left :
                     IF left.returned THEN left.m
                     ELSE RightWalkAndLine(cv, dbg, left, max_x, y, cx, cy, r, paint))

\* for y in from..to: the rows above the centre take r_x at their lower edge
\* y1, the rows from the centre down at their upper edge y0
RECURSIVE DrawRows(_, _, _, _, _, _, _, _, _, _, _)
DrawRows(cv, dbg, m, y, to, upper, cx, cy, r, paint, r_sq) ==
    IF y >= to THEN m
    ELSE LET edge == IF upper THEN FAdd(OfU32(y), One) ELSE OfU32(y)
             d == FSub(edge, cy)
             r_x == FSqrt(FSub(r_sq, FMul(d, d)))
         IN  DrawRows(cv, dbg, DrawRow(cv, dbg, m, r_x, y, cx, cy, r, paint),
                      y + 1, to, upper, cx, cy, r, paint, r_sq)

\* AreaIntersectionRasterizer::draw_filled_circle
AreaDrawFilledCircle(cv, dbg, cx, cy, r, paint) ==
    LET min_y == AsU32(FSub(cy, r))
        max_y == Min(AsU32(FAdd(FAdd(cy, r), One)), cv.height)
        min_x == AsU32(FSub(cx, r))
    IN  IF min_y >= cv.height THEN Machine(cv)
        ELSE IF min_x >= cv.width THEN Machine(cv)
        ELSE IF FLe(r, Two)
             THEN SmallPath(cv, dbg, Machine(cv), min_x, min_y, min_x,
                            Min(AsU32(FAdd(FAdd(cx, r), One)), cv.width), max_y, cx, cy, r, paint)
             ELSE LET upper == DrawRows(cv, dbg, Machine(cv), min_y, AsU32(cy), TRUE,
                                        cx, cy, r, paint, FMul(r, r))
                  IN  DrawRows(cv, dbg, upper, AsU32(cy), max_y, FALSE, cx, cy, r, paint, FMul(r, r))

\* The circles the model draws: centres left of, above, on, right of and
\* below the canvas, radii on both paths.
AreaCentreInputs == {Halves(-8), Halves(3), Halves(2 * MaxHeight + 1), Halves(2 * MaxWidth + 7)}
AreaRadiusInputs == {Halves(1), Halves(3), Halves(5), Halves(6)}

AreaCircle(cx, cy, r, paint) ==
    /\ CanDraw
    /\ Finish(AreaDrawFilledCircle(canvas, debug, cx, cy, r, paint),
              [op |-> "area_circle", args |-> <<cx, cy, r>>, paint |-> paint])
    /\ UNCHANGED <<debug, image, ctorCalls, pc, frame_handler>>

NextArea ==
    \E cx \in AreaCentreInputs, cy \in AreaCentreInputs, r \in AreaRadiusInputs, paint \in Paints :
        AreaCircle(cx, cy, r, paint)

SpecArea == InitInt /\ [][NextArea]_vars

\* Circles of both rasterizers, among them discs whose centre row starts at a
\* whole column right of the canvas (centre 51/16, 12/16, radius 37/16: the
\* row's half-width is 35/16): specification SpecCircles.
WalkCentreInputs == {Sixteenths(51), Sixteenths(12), Halves(3)}
WalkRadiusInputs == {Sixteenths(37), Halves(5)}

NextWalk ==
    \E cx \in WalkCentreInputs, cy \in WalkCentreInputs, r \in WalkRadiusInputs, paint \in Paints :
        AreaCircle(cx, cy, r, paint)

NextCircles == NextMidpoint \/ NextWalk

SpecCircles == InitMidpoint /\ [][NextCircles]_vars

----------------------------------------------------------------------------
(* The area function applied to a rectangle, and to that rectangle        *)
(* enlarged: specification SpecAreaFn.  last.args is the call              *)
(* <<x0, y0, x1, y1, cx, cy, r>>, pre the areas computed so far.           *)

RectLowInputs == {Halves(-6), Halves(-2), Halves(0)}
RectHighInputs == {Halves(1), Halves(2), Halves(6)}
CircleCentreInputs == {Halves(0), Halves(1)}
CircleRadiusInputs == {Halves(0), Halves(2), Halves(3), Halves(5)}
GrowInputs == {Halves(0), Halves(3)}

InitAreaFn ==
    /\ canvas = NoCanvas
    /\ pre = <<>>
    /\ \E x0 \in RectLowInputs, y0 \in RectLowInputs, x1 \in RectHighInputs, y1 \in RectHighInputs,
          cx \in CircleCentreInputs, cy \in CircleCentreInputs, r \in CircleRadiusInputs :
          last = [op |-> "call", args |-> <<x0, y0, x1, y1, cx, cy, r>>, paint |-> Black]
    /\ writes = {}
    /\ trace = NoTrace
    /\ status = "ok"
    /\ debug = FALSE
    /\ ndraws = 0
    /\ image = NoImage
    /\ ctorCalls = 0
    /\ pc = "draw"
    /\ frame_handler = NoHandler

AreaOf(a) == AreaCircleRectangle(a[1], a[2], a[3], a[4], a[5], a[6], a[7])

AreaOfRectangle ==
    /\ last.op = "call"
    /\ pre' = <<AreaOf(last.args)>>
    /\ last' = [last EXCEPT !.op = "area"]
    /\ UNCHANGED <<canvas, trace, writes, status, debug, ndraws, image, ctorCalls, pc, frame_handler>>

\* The same circle and the rectangle moved out by left, down, right and up
AreaOfGrownRectangle(left, down, right, up) ==
    /\ last.op = "area"
    /\ LET a == last.args
           grown == <<FSub(a[1], left), FSub(a[2], down), FAdd(a[3], right), FAdd(a[4], up),
                      a[5], a[6], a[7]>>
       IN  /\ pre' = <<pre[1], AreaOf(grown)>>
           /\ last' = [op |-> "grown", args |-> grown, paint |-> Black]
    /\ UNCHANGED <<canvas, trace, writes, status, debug, ndraws, image, ctorCalls, pc, frame_handler>>

NextAreaFn ==
    \/ AreaOfRectangle
    \/ \E left \in GrowInputs, down \in GrowInputs, right \in GrowInputs, up \in GrowInputs :
          AreaOfGrownRectangle(left, down, right, up)

SpecAreaFn == InitAreaFn /\ [][NextAreaFn]_vars

----------------------------------------------------------------------------
(* Construction and the conversions from and to image::ImageBuffer:        *)
(* specification SpecNew                                                   *)

\* image::ImageBuffer::from_raw answers an image when the container holds at
\* least width * height * CHANNEL_COUNT subpixels, and None otherwise.
ImageFits(layout, width, height, len) ==
    LET need == BufferLen(layout, width, height) IN need.some /\ need.val <= len
FromRaw(layout, width, height, len, data) ==
    IF ImageFits(layout, width, height, len)
    THEN Some([width |-> width, height |-> height, chan |-> layout.chan, sub |-> layout.sub,
               len |-> len, data |-> data])
    ELSE None

\* The conversion with width and height exchanged
FromImageBufferSwapped(img) ==
    [width |-> img.height, height |-> img.width, chan |-> img.chan, sub |-> img.sub,
     len |-> img.len, data |-> img.data]

\* From<ImageBuffer> for HorizontalLineImage: width(), height() and into_raw()
FromImageBuffer(img) ==
    [width |-> img.width, height |-> img.height, chan |-> img.chan, sub |-> img.sub,
     len |-> img.len, data |-> img.data]

\* From<HorizontalLineImage> for ImageBuffer: from_raw(..).unwrap_unchecked().
\* unwrap_unchecked on None is undefined behaviour: no image comes of it.
IntoImageBuffer(cv) == FromRaw([chan |-> cv.chan, sub |-> cv.sub], cv.width, cv.height, cv.len, cv.data)

\* The widths and heights new is called with: small ones and the largest u32s.
DimInputs == (0 .. MaxWidth) \cup {2^(WordBits - 1), U32Max}
\* The lengths a container constructor answers with when asked for len.
GotInputs(len) == {len, len + 1} \cup (IF len > 0 THEN {len - 1} ELSE {})
\* The lengths of the containers an ImageBuffer of need subpixels is made of.
ContainerInputs(need) == {need, need + 1, need + 4}

InitNew ==
    /\ canvas = NoCanvas
    /\ pre = <<>>
    /\ last = NoCall
    /\ writes = {}
    /\ trace = NoTrace
    /\ status = "ok"
    /\ debug \in BOOLEAN
    /\ ndraws = 0
    /\ image = NoImage
    /\ ctorCalls = 0
    /\ pc = "draw"
    /\ frame_handler = NoHandler

Empty == status = "ok" /\ canvas = NoCanvas /\ image = NoImage /\ last = NoCall

\* HorizontalLineImage::new(width, height, constructor), the constructor
\* answering a container of got subpixels
NewCanvas(layout, width, height, got, color) ==
    /\ Empty
    /\ LET made == New(layout, width, height, got, color) IN
          /\ canvas' = made.canvas
          /\ ctorCalls' = ctorCalls + made.calls
          /\ status' = IF made.canvas = NoCanvas THEN "panicked" ELSE "ok"
          /\ pre' = made.canvas.data
    /\ last' = [op |-> "new", args |-> <<layout, width, height, got>>, paint |-> color]
    /\ UNCHANGED <<trace, writes, debug, ndraws, image, pc, frame_handler>>

\* image::ImageBuffer::from_raw(width, height, container) with a container that fits
NewImage(layout, width, height, len, color) ==
    /\ Empty
    /\ ImageFits(layout, width, height, len)
    /\ image' = FromRaw(layout, width, height, len, Filled(len, layout.chan, color)).val
    /\ last' = [op |-> "from_raw", args |-> <<layout, width, height, len>>, paint |-> color]
    /\ UNCHANGED <<canvas, pre, trace, writes, status, debug, ndraws, ctorCalls, pc, frame_handler>>

\* HorizontalLineImage::from(image): the image is moved into the canvas.
\* pre keeps what was converted, and last.args the conversion before this one.
CanvasFromImage ==
    /\ status = "ok" /\ image # NoImage
    /\ canvas' = FromImageBuffer(image)
    /\ image' = NoImage
    /\ pre' = image
    /\ last' = [op |-> "from", args |-> <<last.op, pre>>, paint |-> Black]
    /\ UNCHANGED <<trace, writes, status, debug, ndraws, ctorCalls, pc, frame_handler>>

\* ImageBuffer::from(canvas): the canvas is moved into the image
ImageFromCanvas ==
    /\ status = "ok" /\ canvas # NoCanvas
    /\ LET img == IntoImageBuffer(canvas) IN
          /\ image' = IF img.some THEN img.val ELSE NoImage
          /\ status' = IF img.some THEN "ok" ELSE "fault"
    /\ canvas' = NoCanvas
    /\ pre' = canvas
    /\ last' = [op |-> "into", args |-> <<last.op, pre>>, paint |-> Black]
    /\ UNCHANGED <<trace, writes, debug, ndraws, ctorCalls, pc, frame_handler>>

NextNew ==
    \/ \E layout \in {Rgba8, Rgba16}, w \in DimInputs, h \in DimInputs, color \in {Black} :
          \E got \in (IF BufferLen(layout, w, h).some THEN GotInputs(BufferLen(layout, w, h).val) ELSE {0}) :
              NewCanvas(layout, w, h, got, color)
    \/ \E layout \in {Rgba8, Luma8}, w \in 0 .. MaxWidth, h \in 0 .. MaxHeight, color \in {Black} :
          \E len \in ContainerInputs(layout.chan * w * h) : NewImage(layout, w, h, len, color)
    \/ CanvasFromImage
    \/ ImageFromCanvas
    \/ \E x \in 0 .. 1, y \in 0 .. 1 : DrawPixel(x, y, White)
    \/ \E x1 \in 0 .. 1, y \in 0 .. 1 : DrawLine(0, x1, y, White)

SpecNew == InitNew /\ [][NextNew]_vars

----------------------------------------------------------------------------
(* The frame loop of the renderer: specification SpecFrame.  The          *)
(* GifHandler is the code's; the loop that calls it follows the           *)
(* specification's control flow: per frame a produce, draw calls on the   *)
(* produced canvas, a consume of that canvas.                             *)

\* GifHandler::new; consumed counts the canvases handed to consume
GifHandlerNew(width, height, default_color) ==
    [width |-> width, height |-> height, default_color |-> default_color,
     encoder |-> <<>>, consumed |-> 0]

\* GifHandler::produce: a canvas of the handler's size filled with its
\* default colour
GifProduce(h) == Produce(Rgba8, h.width, h.height, h.default_color)

\* GifHandler::consume: the canvas is converted into an image and encoded
\* as the next frame; a frame the encoder rejects is a panic
GifConsume(h, cv, encoded) ==
    LET img == IntoImageBuffer(cv) IN
    [handler |-> [h EXCEPT !.consumed = @ + 1,
                           !.encoder = IF img.some /\ encoded THEN Append(@, img.val) ELSE @],
     image |-> IF img.some THEN img.val ELSE NoImage,
     status |-> IF ~img.some THEN "fault" ELSE IF encoded THEN "ok" ELSE "panicked"]

FrameSizes == ((1 .. MaxWidth) \X (1 .. MaxHeight)) \cup {<<U32Max, U32Max>>}

InitFrame ==
    /\ canvas = NoCanvas
    /\ pre = canvas.data
    /\ last = NoCall
    /\ writes = {}
    /\ trace = NoTrace
    /\ status = "ok"
    /\ debug \in BOOLEAN
    /\ ndraws = 0
    /\ image = NoImage
    /\ ctorCalls = 0
    /\ pc = "idle"
    /\ \E size \in FrameSizes, c \in DefaultColors : frame_handler = GifHandlerNew(size[1], size[2], c)

RenderProduce ==
    /\ status = "ok" /\ pc = "idle"
    /\ frame_handler.consumed < MaxFrames
    /\ LET made == GifProduce(frame_handler) IN
          /\ canvas' = made.canvas
          /\ ctorCalls' = ctorCalls + made.calls
          /\ status' = IF made.canvas = NoCanvas THEN "panicked" ELSE "ok"
          /\ pc' = IF made.canvas = NoCanvas THEN "idle" ELSE "draw"
          /\ pre' = made.canvas.data
    /\ last' = [op |-> "produce", args |-> <<>>, paint |-> frame_handler.default_color]
    /\ writes' = {}
    /\ trace' = NoTrace
    /\ ndraws' = 0
    /\ UNCHANGED <<debug, image, frame_handler>>

RenderConsume ==
    /\ status = "ok" /\ pc = "draw" /\ canvas # NoCanvas
    /\ \E encoded \in BOOLEAN :
          LET done == GifConsume(frame_handler, canvas, encoded) IN
              /\ frame_handler' = done.handler
              /\ image' = done.image
              /\ status' = done.status
    /\ canvas' = NoCanvas
    /\ pc' = "idle"
    /\ pre' = canvas.data
    /\ last' = [op |-> "consume", args |-> <<>>, paint |-> Black]
    /\ writes' = {}
    /\ trace' = NoTrace
    /\ UNCHANGED <<debug, ndraws, ctorCalls>>

NextFrame ==
    \/ RenderProduce
    \/ \E r \in {OfInt(0), OfInt(1)} : IntDrawFilledCircle(Halves(3), Halves(1), r, White)
    \/ \E cy \in {Halves(1), Halves(2 * MaxHeight + 1)}, r \in {Halves(1), Halves(6)} :
          AreaCircle(Halves(3), cy, r, White)
    \/ RenderConsume

\* The loop is sequential code: a frame may have no draw at all, and the
\* produce and the consume whose turn it is are always called.
SpecFrame == InitFrame /\ [][NextFrame]_vars /\ WF_vars(RenderProduce) /\ WF_vars(RenderConsume)

----------------------------------------------------------------------------
(* C1: draw_horizontal_line_unchecked, called with the precondition the    *)
(* specification states (x0 <= x1 <= width, x0 < width, y < width), sets   *)
(* exactly the cells (x, y) with x0 <= x < x1 to the paint, stores nothing *)
(* outside the buffer and leaves every other cell as it was.               *)

LineEffect ==
    /\ status = "ok"
    /\ writes \subseteq DOMAIN canvas.data
    /\ \A c \in Cells(canvas) :
          canvas.data[CellSlot(canvas, c[1], c[2])] =
              IF c[2] = last.args[3] /\ last.args[1] <= c[1] /\ c[1] < last.args[2]
              THEN last.paint ELSE pre[CellSlot(canvas, c[1], c[2])]

C1_LineFillsSpan ==
    (/\ last.op = "line"
     /\ last.args[1] <= last.args[2] /\ last.args[2] <= canvas.width
     /\ last.args[1] < canvas.width /\ last.args[3] < canvas.width)
    => LineEffect

----------------------------------------------------------------------------
(* What the claims about the IntegerRasterizer say of a call's arguments,  *)
(* stated on the f32 arguments themselves.                                 *)

\* The f32 is a number whose truncation is an i32.
Converts(f) == f.cls = "fin" /\ f.v > (I32Min - 1) * FP /\ f.v < (I32Max + 1) * FP
IntCall == last.op = "int_circle"
AllConvert == Converts(last.args[1]) /\ Converts(last.args[2]) /\ Converts(last.args[3])
CentreX == Trunc(last.args[1].v)
CentreY == Trunc(last.args[2].v)
Radius == Trunc(last.args[3].v)
Untouched == writes = {} /\ canvas.data = pre

(* C2: an IntegerRasterizer circle whose disc (truncated centre (x0, y0),   *)
(* radius r >= 0) lies entirely off the canvas issues no store and leaves  *)
(* every cell of the canvas as it was.                                     *)
DiscOffCanvas ==
    \/ CentreX + Radius < 0 \/ CentreX - Radius >= canvas.width
    \/ CentreY + Radius < 0 \/ CentreY - Radius >= canvas.height

C2_OffCanvasDrawsNothing ==
    (IntCall /\ AllConvert /\ Radius >= 0 /\ DiscOffCanvas) => Untouched

(* C4: when the conversion of cx, cy or r to an i32 fails, the             *)
(* IntegerRasterizer returns without a panic and without a store: the      *)
(* canvas is exactly as before the call.                                   *)
C4_FailedConversionSkips ==
    (IntCall /\ ~AllConvert) => (status = "ok" /\ Untouched)

\* A call whose radius does not convert while its centre is a cell of the canvas.
C4_Witness ==
    /\ IntCall /\ ~Converts(last.args[3])
    /\ Converts(last.args[1]) /\ Converts(last.args[2])
    /\ <<CentreX, CentreY>> \in Cells(canvas)

(* C8: an IntegerRasterizer circle of radius 0 sets exactly the cell       *)
(* (x0, y0) when that cell is on the canvas, and stores nothing when it is *)
(* not.                                                                    *)
C8_RadiusZeroSinglePixel ==
    (IntCall /\ AllConvert /\ Radius = 0) =>
        IF <<CentreX, CentreY>> \in Cells(canvas)
        THEN /\ writes = {CellSlot(canvas, CentreX, CentreY)}
             /\ \A c \in Cells(canvas) :
                   canvas.data[CellSlot(canvas, c[1], c[2])] =
                       IF c = <<CentreX, CentreY>> THEN last.paint
                       ELSE pre[CellSlot(canvas, c[1], c[2])]
        ELSE Untouched

----------------------------------------------------------------------------
(* C5: every HorizontalLineImage that exists, however it was made and      *)
(* whatever was drawn on it, has a buffer of exactly width * height *      *)
(* CHANNEL_COUNT subpixels.                                                *)
Need(cv) == cv.chan * cv.width * cv.height

C5_LengthIsExact == canvas # NoCanvas => canvas.len = Need(canvas)

\* As amended: the buffer holds at least that many subpixels, and exactly
\* that many when the canvas comes from new.
C5_LengthCoversImage ==
    canvas # NoCanvas =>
        /\ canvas.len >= Need(canvas)
        /\ last.op = "new" => canvas.len = Need(canvas)

\* A canvas made from an image whose container is longer than the image, drawn on.
C5_Witness ==
    /\ canvas # NoCanvas /\ canvas.len > Need(canvas)
    /\ last.op \in {"pixel", "line"}

(* C6: new panics and makes no canvas when CHANNEL_COUNT * width * height  *)
(* overflows usize, without invoking the container constructor, and also   *)
(* when the container the constructor answers has another length.          *)
C6_NewFailsFast ==
    last.op = "new" =>
        LET layout == last.args[1]
            product == layout.chan * last.args[2] * last.args[3]
        IN  /\ product > UsizeMax => (canvas = NoCanvas /\ status = "panicked" /\ ctorCalls = 0)
            /\ (product <= UsizeMax /\ last.args[4] # product) =>
                   (canvas = NoCanvas /\ status = "panicked")

\* new was called with dimensions whose product overflows, and has panicked.
C6_Witness ==
    /\ last.op = "new" /\ status = "panicked"
    /\ last.args[1].chan * last.args[2] * last.args[3] > UsizeMax

(* C7: a HorizontalLineImage converted to an ImageBuffer and back, and an  *)
(* ImageBuffer converted to a HorizontalLineImage and back, has the same   *)
(* width, height and buffer contents as before.                            *)
C7_RoundTrip ==
    /\ (last.op = "from" /\ last.args[1] = "into") =>
           (status = "ok" /\ canvas = last.args[2])
    /\ (last.op = "into" /\ last.args[1] = "from") =>
           (status = "ok" /\ image = last.args[2])

\* A canvas of unequal sides, that had been drawn on, went to an image and came back.
C7_Witness ==
    /\ last.op = "from" /\ last.args[1] = "into"
    /\ canvas.width # canvas.height /\ canvas.width > 0 /\ canvas.height > 0
    /\ \E i \in DOMAIN canvas.data : canvas.data[i] = White

----------------------------------------------------------------------------
(* C3: an AreaIntersectionRasterizer circle, on either path, whose         *)
(* bounding box [cx - r, cx + r] x [cy - r, cy + r] does not meet the      *)
(* canvas rectangle [0, width] x [0, height] leaves every cell as it was.  *)
BoxOffCanvas ==
    LET cx == last.args[1]
        cy == last.args[2]
        r == last.args[3]
    IN  \/ FLt(FAdd(cx, r), Zero) \/ FLt(OfU32(canvas.width), FSub(cx, r))
        \/ FLt(FAdd(cy, r), Zero) \/ FLt(OfU32(canvas.height), FSub(cy, r))

C3_AreaOffCanvasDrawsNothing ==
    (last.op = "area_circle" /\ BoxOffCanvas) => canvas.data = pre

(* C10: the area of a rectangle that encloses the circle is pi r^2, and    *)
(* the area never decreases when the rectangle is enlarged; both stated    *)
(* to within AreaTolerance, the rounding the model allows the function.    *)
AreaTolerance == FP \div 2^6
PiRSquared(r) == MulMagnitude(2 * HalfPi, MulMagnitude(r.v, r.v))
Encloses(a) ==
    /\ FLe(a[1], FSub(a[5], a[7])) /\ FLe(FAdd(a[5], a[7]), a[3])
    /\ FLe(a[2], FSub(a[6], a[7])) /\ FLe(FAdd(a[6], a[7]), a[4])
Latest == pre[Len(pre)]

C10_AreaEnclosedAndMonotone ==
    last.op \in {"area", "grown"} =>
        /\ Encloses(last.args) =>
               (Latest.cls = "fin" /\ Abs(Latest.v - PiRSquared(last.args[7])) <= AreaTolerance)
        /\ last.op = "grown" =>
               (pre[1].cls = "fin" /\ pre[2].cls = "fin" /\ pre[2].v >= pre[1].v - AreaTolerance)

----------------------------------------------------------------------------
(* C9: per frame the renderer produces a canvas, draws on it and hands it  *)
(* to consume, in that order: at most one canvas is live at a time, a      *)
(* draw happens only on the live canvas, never after its consume, and      *)
(* every produced canvas is eventually consumed, exactly once.             *)
Produced == ctorCalls
Consumed == frame_handler.consumed

OneLiveCanvas ==
    /\ Produced - Consumed \in {0, 1}
    /\ (canvas # NoCanvas) <=> (Produced = Consumed + 1)

DrawsOnLiveCanvas ==
    last' # last /\ last'.op \in {"int_circle", "area_circle"}
        => (canvas # NoCanvas /\ Produced = Consumed + 1 /\ Consumed' = Consumed)

C9_FrameProtocol ==
    /\ []OneLiveCanvas
    /\ [][DrawsOnLiveCanvas]_vars
    /\ [][Consumed' \in {Consumed, Consumed + 1} /\ Consumed' <= Produced]_vars
    /\ \A n \in 1 .. MaxFrames : (Produced = n) ~> (Consumed = n)


\* The precondition of the canvas primitive a call was issued with.
CallInBounds(c) ==
    IF c.op = "pixel"
    THEN c.x0 < canvas.width /\ c.y < canvas.height
    ELSE c.x0 <= c.x1 /\ c.x1 <= canvas.width /\ c.x0 < canvas.width /\ c.y < canvas.height

\* C11: every draw_pixel_unchecked(x, y, ..) call the Area-Intersection
\* Rasterizer issues has x < width and y < height, and every
\* draw_horizontal_line_unchecked(x0, x1, y, ..) call it issues has
\* x0 <= x1 <= width, x0 < width and y < height.
C11_AreaCallsInBounds ==
    last.op = "area_circle" => \A c \in trace.calls : CallInBounds(c)


\* C12: every draw_horizontal_line_unchecked(x0, x1, y, ..) call the Integer
\* Rasterizer issues, on canvases of every size including the empty ones, has
\* x0 <= x1 <= width, x0 < width and 0 <= y < height, so that a panic of a
\* debug build never comes from the assertions of the canvas primitive (it
\* comes from an arithmetic overflow of the loop).
C12_IntCallsInBounds ==
    last.op = "int_circle" =>
        /\ \A c \in trace.calls : c.op = "line" /\ CallInBounds(c) /\ 0 <= c.y
        /\ status = "panicked" => trace.overflow

\* A debug build has drawn a circle of several spans and returned.
C12_Witness ==
    /\ last.op = "int_circle"
    /\ debug
    /\ status = "ok"
    /\ Cardinality(trace.calls) >= 2


\* C14: for every radius and centre that convert to i32, no i32 operation of
\* the midpoint loop overflows: x + 1, y - 1, 2 * x + 1, 2 * (x - y) + 1 and
\* the sums p + .. all stay within [-2^31, 2^31 - 1].
C14_NoMidpointOverflow ==
    (last.op = "int_circle" /\ AllConvert) => ~trace.overflow


\* C13: every draw_filled_circle call runs to completion.  The midpoint loop
\* of the Integer Rasterizer ends after at most r + 1 iterations; in the
\* general path of the Area-Intersection Rasterizer both walks of every row
\* stop, the right-edge walk never below column 0 and never left of the
\* column where the left-edge walk stopped.
C13_IntLoopBounded ==
    (last.op = "int_circle" /\ AllConvert) =>
        status # "running" /\ trace.steps <= Max(Radius, 0) + 1
C13_WalksStop ==
    last.op = "area_circle" => ~trace.underflow /\ ~trace.crossed
C13_RunsToCompletion ==
    last.op \in {"int_circle", "area_circle"} =>
        status = "ok" /\ C13_IntLoopBounded /\ C13_WalksStop

====
